---- MODULE Spec2Model ----
(***************************************************************************)
(* Model of scrape_icook_keywords_to_firestore.py: the JSON-LD extractor   *)
(* (parse_ld_json and its helpers), the markup fallback cascade and the    *)
(* per-link loop of scrape_keyword, the remote identifier derivation of    *)
(* upsert_firestore, and the snapshot/history persistence of main.         *)
(*                                                                         *)
(* Text is a sequence of one-character strings, so that trimming, prefix   *)
(* tests, replacement and the duration patterns are computed, not taken    *)
(* as given.  A Python value is a tagged record (none / str / list / dict). *)
(***************************************************************************)
EXTENDS Integers, Sequences, FiniteSets

VARIABLES
    fin,        \* the input drawn for the function applied
    fout,       \* its result
    fpc,        \* "ready" before the call, "done" after it
    pc,         \* where main is: idle, setup, keywords, links, teardown, snapshot,
                \* history, summary, done, aborted
    run,        \* the number of runs of the process started so far
    db,         \* whether the remote handle was configured at start-up
    kws,        \* the shuffled keywords not yet searched
    links,      \* scrape_keyword: the links not yet visited
    kw_links,   \* scrape_keyword: the links found for the keyword
    visited,    \* scrape_keyword: what happened at each link visited so far
    saved,      \* scrape_keyword: saved
    all_saved,  \* main: all_saved
    upserts,    \* the calls of upsert_firestore made in this run: the record, the
                \* identifier it is set under, whether the call succeeded
    snapshot,   \* the file SAMPLE_FILE
    history,    \* the file HISTORY_FILE
    io,         \* the outcome of this run's snapshot write, history write and summary
    budget,     \* the links the searches may still find, over all runs (model bound)
    trail       \* per run: the records of the history before it, the run's records,
                \* how it ended, the outcomes of its snapshot and history writes

fvars == <<fin, fout, fpc>>
rvars == <<pc, run, db, kws, links, kw_links, visited, saved, all_saved, upserts,
           snapshot, history, io, budget, trail>>
vars == <<fin, fout, fpc, pc, run, db, kws, links, kw_links, visited, saved, all_saved,
          upserts, snapshot, history, io, budget, trail>>

\* the run variables of a specification that only applies a function
NoRun ==
    /\ pc = "idle" /\ run = 0 /\ db = FALSE /\ kws = <<>> /\ links = <<>>
    /\ kw_links = <<>> /\ visited = <<>> /\ saved = <<>> /\ all_saved = <<>>
    /\ upserts = <<>> /\ snapshot = [state |-> "absent", recs |-> <<>>]
    /\ history = [state |-> "absent", recs |-> <<>>]
    /\ io = [snap |-> "none", hist |-> "none", summary |-> "none"] /\ trail = <<>>
    /\ budget = 0

(***************************************************************************)
(* Python values                                                           *)
(***************************************************************************)
JNone == [t |-> "none", s |-> <<>>, l |-> <<>>]
JStr(s) == [t |-> "str", s |-> s, l |-> <<>>]
JList(l) == [t |-> "list", s |-> <<>>, l |-> l]
\* a dict is its sequence of <<key, value>> pairs
JDict(kv) == [t |-> "dict", s |-> <<>>, l |-> kv]

IsNone(v) == v.t = "none"
IsStr(v) == v.t = "str"
IsList(v) == v.t = "list"
IsDict(v) == v.t = "dict"

\* Python truthiness: None, "", [] and {} are falsy
Truthy(v) == CASE v.t = "none" -> FALSE
               [] v.t = "str" -> v.s # <<>>
               [] OTHER -> v.l # <<>>

HasKey(d, k) == \E i \in 1..Len(d.l) : d.l[i][1] = k

\* dict.get(k): the value under k, None when absent
Get(d, k) ==
    IF HasKey(d, k)
    THEN d.l[CHOOSE i \in 1..Len(d.l) : d.l[i][1] = k][2]
    ELSE JNone

(***************************************************************************)
(* Text helpers                                                            *)
(***************************************************************************)
RECURSIVE LStrip(_)
LStrip(s) == IF s # <<>> /\ Head(s) = " " THEN LStrip(Tail(s)) ELSE s

RECURSIVE RStrip(_)
RStrip(s) ==
    IF s # <<>> /\ s[Len(s)] = " " THEN RStrip(SubSeq(s, 1, Len(s) - 1)) ELSE s

\* str.strip()
Strip(s) == RStrip(LStrip(s))

\* str.startswith(p)
StartsWith(s, p) == Len(s) >= Len(p) /\ SubSeq(s, 1, Len(p)) = p

\* str.replace(pat, rep): every non-overlapping occurrence, left to right
RECURSIVE Replace(_, _, _)
Replace(s, pat, rep) ==
    IF Len(s) < Len(pat) \/ pat = <<>> THEN s
    ELSE IF StartsWith(s, pat)
         THEN rep \o Replace(SubSeq(s, Len(pat) + 1, Len(s)), pat, rep)
         ELSE <<Head(s)>> \o Replace(Tail(s), pat, rep)

Digits == <<"0", "1", "2", "3", "4", "5", "6", "7", "8", "9">>
IsDigit(c) == \E i \in 1..10 : Digits[i] = c
DigitVal(c) == (CHOOSE i \in 1..10 : Digits[i] = c) - 1

\* int(text) of a run of digits
RECURSIVE ParseInt(_)
ParseInt(ds) ==
    IF ds = <<>> THEN 0
    ELSE 10 * ParseInt(SubSeq(ds, 1, Len(ds) - 1)) + DigitVal(ds[Len(ds)])

\* str(n) of a natural number
RECURSIVE IntToStr(_)
IntToStr(n) ==
    IF n < 10 THEN <<Digits[n + 1]>>
    ELSE IntToStr(n \div 10) \o <<Digits[(n % 10) + 1]>>

\* the last index of the maximal run of digits starting at i (i - 1: no digit at i)
RECURSIVE DigitRunEnd(_, _)
DigitRunEnd(s, i) ==
    IF i <= Len(s) /\ IsDigit(s[i]) THEN DigitRunEnd(s, i + 1) ELSE i - 1

\* every text over alphabet A of at most n characters
RECURSIVE TextsUpTo(_, _)
TextsUpTo(A, n) ==
    IF n = 0 THEN {<<>>}
    ELSE LET S == TextsUpTo(A, n - 1)
         IN S \cup {<<c>> \o s : c \in A, s \in {x \in S : Len(x) = n - 1}}

(***************************************************************************)
(* iso8601_duration_to_text                                                *)
(***************************************************************************)
\* re.search(r"PT(\d+)H", s): the start positions at which the pattern matches
HourMatches(s) ==
    {i \in 1..Len(s) :
        /\ i + 1 <= Len(s) /\ s[i] = "P" /\ s[i + 1] = "T"
        /\ DigitRunEnd(s, i + 2) >= i + 2
        /\ DigitRunEnd(s, i + 2) + 1 <= Len(s)
        /\ s[DigitRunEnd(s, i + 2) + 1] = "H"}

\* re.search(r"(\d+)M", s)
MinuteMatches(s) ==
    {i \in 1..Len(s) :
        /\ DigitRunEnd(s, i) >= i
        /\ DigitRunEnd(s, i) + 1 <= Len(s)
        /\ s[DigitRunEnd(s, i) + 1] = "M"}

Leftmost(S) == CHOOSE i \in S : \A j \in S : i <= j

HoursOf(s) ==
    IF HourMatches(s) = {} THEN 0
    ELSE LET i == Leftmost(HourMatches(s))
         IN ParseInt(SubSeq(s, i + 2, DigitRunEnd(s, i + 2)))

MinutesOf(s) ==
    IF MinuteMatches(s) = {} THEN 0
    ELSE LET i == Leftmost(MinuteMatches(s))
         IN ParseInt(SubSeq(s, i, DigitRunEnd(s, i)))

\* the units of the texts, U+5C0F U+6642 (hours) and U+5206 U+9418 (minutes),
\* one name per character
HoursUnit == <<" ", "U5C0F", "U6642">>
MinutesUnit == <<" ", "U5206", "U9418">>

\* the conversion without the test for "both zero" of line 90
iso8601_duration_to_text_nozero(s) ==
    IF s = <<>> THEN JNone
    ELSE IF ~StartsWith(s, <<"P", "T">>) THEN JStr(s)
    ELSE LET hours == HoursOf(s)
             minutes == MinutesOf(s)
         IN IF hours # 0 /\ minutes # 0
            THEN JStr(IntToStr(hours) \o HoursUnit \o <<" ">>
                      \o IntToStr(minutes) \o MinutesUnit)
            ELSE IF hours # 0 THEN JStr(IntToStr(hours) \o HoursUnit)
            ELSE JStr(IntToStr(minutes) \o MinutesUnit)

iso8601_duration_to_text(s) ==
    IF s = <<>> THEN JNone
    ELSE IF ~StartsWith(s, <<"P", "T">>) THEN JStr(s)
    ELSE LET hours == HoursOf(s)
             minutes == MinutesOf(s)
         IN IF hours = 0 /\ minutes = 0 THEN JNone
            ELSE IF hours # 0 /\ minutes # 0
                 THEN JStr(IntToStr(hours) \o HoursUnit \o <<" ">>
                           \o IntToStr(minutes) \o MinutesUnit)
            ELSE IF hours # 0 THEN JStr(IntToStr(hours) \o HoursUnit)
            ELSE JStr(IntToStr(minutes) \o MinutesUnit)

\* str(x) of a value (the repr of a list or a dict is kept as bracketed text)
RECURSIVE PyStr(_)
RECURSIVE PyStrItems(_)
PyStrItems(l) ==
    IF l = <<>> THEN <<>>
    ELSE (IF l[1].t = "str" THEN <<"'">> \o l[1].s \o <<"'">> ELSE PyStr(l[1]))
         \o (IF Len(l) > 1 THEN <<",", " ">> ELSE <<>>) \o PyStrItems(Tail(l))
PyStr(v) ==
    CASE v.t = "none" -> <<"N", "o", "n", "e">>
      [] v.t = "str" -> v.s
      [] v.t = "list" -> <<"[">> \o PyStrItems(v.l) \o <<"]">>
      [] OTHER -> <<"{", "}">>

\* ensure_str
ensure_str(x) == IF IsNone(x) THEN JNone ELSE JStr(Strip(PyStr(x)))

\* `a or b`
PyOr(a, b) == IF Truthy(a) THEN a ELSE b

\* parse_ld_json, the time field of one Recipe node (time_text not yet set)
NodeTime(node) ==
    LET t == PyOr(ensure_str(Get(node, "totalTime")), ensure_str(Get(node, "cookTime")))
    IN IF Truthy(t) THEN PyOr(iso8601_duration_to_text(t.s), t) ELSE JNone

(***************************************************************************)
(* extract_image_url_from_ld, extract_steps_from_ld, parse_ld_json         *)
(***************************************************************************)
RecipeText == <<"R", "e", "c", "i", "p", "e">>
HowToSectionText == <<"H", "o", "w", "T", "o", "S", "e", "c", "t", "i", "o", "n">>

extract_image_url_from_ld(obj) ==
    IF ~Truthy(obj) THEN JNone
    ELSE IF IsStr(obj) THEN obj
    ELSE IF IsList(obj) /\ IsStr(obj.l[1]) THEN obj.l[1]
    ELSE IF IsList(obj) /\ IsDict(obj.l[1]) THEN ensure_str(Get(obj.l[1], "url"))
    ELSE IF IsDict(obj) THEN ensure_str(Get(obj, "url"))
    ELSE JNone

\* the text a dict item or a lone dict contributes: text-or-name, stripped, if any
StepTextOf(d) ==
    LET t == PyOr(Get(d, "text"), Get(d, "name"))
    IN IF Truthy(t) /\ Strip(PyStr(t)) # <<>> THEN <<JStr(Strip(PyStr(t)))>> ELSE <<>>

\* pick_from_list
RECURSIVE pick_from_list(_)
pick_from_list(items) ==
    IF items = <<>> THEN <<>>
    ELSE LET it == Head(items)
         IN (IF IsStr(it) THEN (IF Strip(it.s) # <<>> THEN <<JStr(Strip(it.s))>> ELSE <<>>)
             ELSE IF IsDict(it) THEN StepTextOf(it)
             ELSE <<>>)
            \o pick_from_list(Tail(items))

extract_steps_from_ld(obj) ==
    LET steps ==
            IF IsList(obj) THEN pick_from_list(obj.l)
            ELSE IF IsDict(obj)
                 THEN IF /\ Get(obj, "@type") = JStr(HowToSectionText)
                         /\ IsList(Get(obj, "itemListElement"))
                      THEN pick_from_list(Get(obj, "itemListElement").l)
                      ELSE StepTextOf(obj)
            ELSE <<>>
    IN JList(SelectSeq([k \in 1..Len(steps) |-> JStr(Strip(steps[k].s))],
                       LAMBDA x : x.s # <<>>))

\* [str(x).strip() for x in ing if str(x).strip()]
StrippedItems(l) ==
    SelectSeq([k \in 1..Len(l) |-> JStr(Strip(PyStr(l[k])))], LAMBDA x : x.s # <<>>)

NodeYield(node) ==
    LET y == Get(node, "recipeYield")
    IN IF IsList(y) /\ Truthy(y) THEN ensure_str(y.l[1]) ELSE ensure_str(y)

IsRecipe(node) ==
    LET types == Get(node, "@type")
    IN \/ types = JStr(RecipeText)
       \/ IsList(types) /\ \E i \in 1..Len(types.l) : types.l[i] = JStr(RecipeText)

\* the six fields before any blob is read (lines 129-134)
EmptyFields ==
    [title |-> JNone, ingredients |-> JList(<<>>), time_text |-> JNone,
     yield_info |-> JNone, steps |-> JList(<<>>), image_url |-> JNone]

\* the body of `for node in nodes` (lines 156-188)
ScanNode(acc, node) ==
    IF ~IsRecipe(node) THEN acc
    ELSE [title |->
              IF ~Truthy(acc.title) THEN ensure_str(Get(node, "name")) ELSE acc.title,
          ingredients |->
              IF ~Truthy(acc.ingredients) /\ IsList(Get(node, "recipeIngredient"))
              THEN JList(StrippedItems(Get(node, "recipeIngredient").l))
              ELSE acc.ingredients,
          time_text |->
              IF ~Truthy(acc.time_text) /\ Truthy(NodeTime(node))
              THEN NodeTime(node) ELSE acc.time_text,
          yield_info |->
              IF ~Truthy(acc.yield_info) THEN NodeYield(node) ELSE acc.yield_info,
          steps |->
              IF ~Truthy(acc.steps)
                 /\ Truthy(extract_steps_from_ld(Get(node, "recipeInstructions")))
              THEN extract_steps_from_ld(Get(node, "recipeInstructions"))
              ELSE acc.steps,
          image_url |->
              IF ~Truthy(acc.image_url)
              THEN extract_image_url_from_ld(Get(node, "image"))
              ELSE acc.image_url]

RECURSIVE ScanNodes(_, _)
ScanNodes(acc, nodes) ==
    IF nodes = <<>> THEN acc ELSE ScanNodes(ScanNode(acc, Head(nodes)), Tail(nodes))

\* the nodes of one candidate (lines 144-153)
NodesOf(obj) ==
    IF IsDict(obj)
    THEN IF HasKey(obj, "@graph") /\ IsList(Get(obj, "@graph"))
         THEN SelectSeq(Get(obj, "@graph").l, IsDict)
         ELSE <<obj>>
    ELSE IF IsList(obj) THEN SelectSeq(obj.l, IsDict)
    ELSE <<>>

RECURSIVE ScanCandidates(_, _)
ScanCandidates(acc, cands) ==
    IF cands = <<>> THEN acc
    ELSE ScanCandidates(ScanNodes(acc, NodesOf(Head(cands))), Tail(cands))

\* a blob is the document json.loads gives for it, or fails to decode
Undecodable == [decodes |-> FALSE, data |-> JNone]
Blob(data) == [decodes |-> TRUE, data |-> data]

RECURSIVE ScanBlobs(_, _)
ScanBlobs(acc, ld_texts) ==
    IF ld_texts = <<>> THEN acc
    ELSE LET raw == Head(ld_texts)
         IN IF ~raw.decodes THEN ScanBlobs(acc, Tail(ld_texts))
            ELSE ScanBlobs(
                     ScanCandidates(acc, IF IsList(raw.data) THEN raw.data.l
                                         ELSE <<raw.data>>),
                     Tail(ld_texts))

parse_ld_json(ld_texts) == ScanBlobs(EmptyFields, ld_texts)

(***************************************************************************)
(* Specification SpecLd: parse_ld_json on up to MaxBlobs blobs, each       *)
(* undecodable, one node, a @graph of two members or a list of two members *)
(***************************************************************************)
MaxBlobs == 2

T(c) == JStr(<<c>>)
Padded(c) == JStr(<<" ", c, " ">>)
Blank == JStr(<<" ">>)
RecipeNode(kv) == JDict(<< <<"@type", JStr(RecipeText)>> >> \o kv)

\* every field present, plain texts
NodeA ==
    RecipeNode(<< <<"name", T("A")>>, <<"recipeIngredient", JList(<<T("a"), T("b")>>)>>,
                  <<"totalTime", JStr(<<"P", "T", "1", "H">>)>>, <<"recipeYield", T("2")>>,
                  <<"recipeInstructions", JList(<<T("s"), T("t")>>)>>,
                  <<"image", T("u")>> >>)
\* every field present in its other shape, the type a list holding Recipe
NodeB ==
    JDict(<< <<"@type", JList(<<T("Thing"), JStr(RecipeText)>>)>>,
             <<"name", Padded("B")>>, <<"recipeIngredient", JList(<<Padded("c")>>)>>,
             <<"cookTime", JStr(<<"P", "T", "5", "M">>)>>,
             <<"recipeYield", JList(<<T("4"), T("5")>>)>>,
             <<"recipeInstructions", JList(<< JDict(<< <<"text", Padded("v")>> >>) >>)>>,
             <<"image", JDict(<< <<"url", Padded("w")>> >>)>> >>)
\* every field present and holding only whitespace
NodeBlank ==
    RecipeNode(<< <<"name", Blank>>, <<"recipeIngredient", JList(<<Blank>>)>>,
                  <<"totalTime", Blank>>, <<"recipeYield", Blank>>,
                  <<"recipeInstructions", JList(<<Blank>>)>>, <<"image", Blank>> >>)
\* a Recipe node without any field
NodeBare == RecipeNode(<<>>)
\* every field present, but not a Recipe
NodeOther ==
    JDict(<< <<"@type", T("WebPage")>>, <<"name", T("X")>>,
             <<"recipeIngredient", JList(<<T("x")>>)>>, <<"totalTime", T("x")>>,
             <<"recipeYield", T("x")>>, <<"recipeInstructions", JList(<<T("x")>>)>>,
             <<"image", T("x")>> >>)
\* the list shapes of image and yield with nothing in them, a section of steps
NodeLists ==
    RecipeNode(<< <<"recipeYield", JList(<<>>)>>, <<"image", JList(<<Blank>>)>>,
                  <<"recipeInstructions",
                    JDict(<< <<"@type", JStr(HowToSectionText)>>,
                             <<"itemListElement",
                               JList(<< JDict(<< <<"name", T("n")>> >>) >>)>> >>)>> >>)
\* a text image with spaces around it, a duration of zero
NodePadded ==
    RecipeNode(<< <<"name", T("C")>>, <<"image", Padded("y")>>,
                  <<"totalTime", JStr(<<"P", "T", "0", "M">>)>> >>)

LdNodes == {NodeA, NodeB, NodeBlank, NodeBare, NodeOther, NodeLists, NodePadded}
\* a member that is no object is dropped
LdMembers == LdNodes \cup {T("x")}
LdBlobs ==
    {Undecodable}
    \cup {Blob(n) : n \in LdNodes}
    \cup {Blob(JDict(<< <<"@graph", JList(<<a, b>>)>> >>)) : a \in LdMembers, b \in LdMembers}
    \cup {Blob(JList(<<a, b>>)) : a \in LdMembers, b \in LdMembers}

RECURSIVE SeqsUpTo(_, _)
SeqsUpTo(S, n) ==
    IF n = 0 THEN {<<>>}
    ELSE LET R == SeqsUpTo(S, n - 1)
         IN R \cup {Append(r, x) : r \in {y \in R : Len(y) = n - 1}, x \in S}

\* fin: the page's ld_texts; fout: the six fields parse_ld_json returns
LdInit ==
    /\ NoRun
    /\ fin \in SeqsUpTo(LdBlobs, MaxBlobs)
    /\ fout = EmptyFields
    /\ fpc = "ready"

LdParse ==
    /\ fpc = "ready"
    /\ fout' = parse_ld_json(fin)
    /\ fpc' = "done"
    /\ UNCHANGED <<fin, rvars>>

LdNext == LdParse
SpecLd == LdInit /\ [][LdNext]_vars

\* the Recipe-typed nodes of the blobs, in blob order then node order
RECURSIVE FlatMap(_, _)
FlatMap(F(_), seq) == IF seq = <<>> THEN <<>> ELSE F(Head(seq)) \o FlatMap(F, Tail(seq))
NodesOfBlob(b) ==
    IF ~b.decodes THEN <<>>
    ELSE FlatMap(NodesOf, IF IsList(b.data) THEN b.data.l ELSE <<b.data>>)
RecipeNodes(ld_texts) == SelectSeq(FlatMap(NodesOfBlob, ld_texts), IsRecipe)

LdFields == {"title", "ingredients", "time_text", "yield_info", "steps", "image_url"}

\* the value a node carries for a field, as extracted but not yet trimmed or tested
CarriedRaw(f, node) ==
    CASE f = "title" -> Get(node, "name")
      [] f = "ingredients" ->
            IF IsList(Get(node, "recipeIngredient"))
            THEN JList(StrippedItems(Get(node, "recipeIngredient").l)) ELSE JNone
      [] f = "time_text" -> NodeTime(node)
      [] f = "yield_info" ->
            LET y == Get(node, "recipeYield")
            IN IF IsList(y) THEN (IF y.l = <<>> THEN JNone ELSE y.l[1]) ELSE y
      [] f = "steps" -> extract_steps_from_ld(Get(node, "recipeInstructions"))
      [] OTHER ->
            LET o == Get(node, "image")
            IN IF IsStr(o) THEN o
               ELSE IF IsList(o) /\ o.l # <<>> /\ IsStr(o.l[1]) THEN o.l[1]
               ELSE IF IsList(o) /\ o.l # <<>> /\ IsDict(o.l[1]) THEN Get(o.l[1], "url")
               ELSE IF IsDict(o) THEN Get(o, "url")
               ELSE JNone

\* the same value trimmed: what the first-wins rule counts as found when non-empty
Carried(f, node) ==
    LET v == CarriedRaw(f, node)
    IN IF IsStr(v) THEN JStr(Strip(v.s)) ELSE v

\* the Recipe nodes (by position) that carry a value for f that is non-empty after
\* trimming
Carriers(f, nodes) == {k \in 1..Len(nodes) : Truthy(Carried(f, nodes[k]))}

\* the rule of C9 for one field: the value of the first carrier (as carried, or
\* trimmed), and no value when no node carries one
C9_Field(f) == fpc = "done" =>
    LET nodes == RecipeNodes(fin)
    IN IF Carriers(f, nodes) = {} THEN ~Truthy(fout[f])
       ELSE fout[f] \in {Carried(f, nodes[Leftmost(Carriers(f, nodes))]),
                         CarriedRaw(f, nodes[Leftmost(Carriers(f, nodes))])}

\* the same with the value trimmed
C9_FieldTrimmed(f) == fpc = "done" =>
    LET nodes == RecipeNodes(fin)
    IN IF Carriers(f, nodes) = {} THEN ~Truthy(fout[f])
       ELSE fout[f] = Carried(f, nodes[Leftmost(Carriers(f, nodes))])

\* C9: each of the six fields parse_ld_json returns is the first value, non-empty
\* after trimming, found in the Recipe nodes in blob order then node order; a node
\* with no value or only whitespace for a field does not count and does not stop a
\* later node; undecodable blobs and other nodes contribute nothing.
C9_FirstWins == \A f \in LdFields : C9_Field(f)

\* the fields for which the code follows the rule of C9
C9_HoldsForTitleIngredientsTimeSteps ==
    \A f \in {"title", "ingredients", "time_text", "steps"} : C9_FieldTrimmed(f)

(***************************************************************************)
(* upsert_firestore                                                        *)
(***************************************************************************)
Https == <<"h", "t", "t", "p", "s", ":", "/", "/">>
Http == <<"h", "t", "t", "p", ":", "/", "/">>

\* the identifier with only the https:// prefix handled
DocIdHttpsOnly(link) == Replace(Replace(link, Https, <<>>), <<"/">>, <<"_">>)

\* doc["link"].replace("https://", "").replace("http://", "").replace("/", "_")
DocId(link) ==
    Replace(Replace(Replace(link, Https, <<>>), Http, <<>>), <<"/">>, <<"_">>)

\* db.collection("recipes").document(doc_id).set(doc): create or replace
RemoteSet(coll, id, doc) ==
    {e \in coll : e.id # id} \cup {[id |-> id, doc |-> doc]}

(***************************************************************************)
(* Specification SpecId: upserts of documents whose links are a scheme     *)
(* followed by any text over PathAlphabet of at most MaxPathLen characters *)
(***************************************************************************)
MaxPathLen == 2
MaxUpserts == 2
PathAlphabet == {"w", "/", "1"}
Schemes == {Https, Http}
IdLinks == {sc \o b : sc \in Schemes, b \in TextsUpTo(PathAlphabet, MaxPathLen)}

\* fin: the calls made, in order; fout: the remote collection
IdInit ==
    /\ NoRun
    /\ fin = <<>>
    /\ fout = {}
    /\ fpc = "ready"

IdUpsert ==
    /\ Len(fin) < MaxUpserts
    /\ \E link \in IdLinks :
          LET doc == [link |-> link, call |-> Len(fin) + 1]
              doc_id == DocId(doc.link)
          IN /\ fout' = RemoteSet(fout, doc_id, doc)
             /\ fin' = Append(fin, [link |-> link, id |-> doc_id])
    /\ UNCHANGED <<fpc, rvars>>

IdNext == IdUpsert
SpecId == IdInit /\ [][IdNext]_vars

\* a link without its scheme prefix
BodyOf(link) ==
    IF StartsWith(link, Https) THEN SubSeq(link, Len(Https) + 1, Len(link))
    ELSE IF StartsWith(link, Http) THEN SubSeq(link, Len(Http) + 1, Len(link))
    ELSE link

Underscored(text) == [k \in 1..Len(text) |-> IF text[k] = "/" THEN "_" ELSE text[k]]

\* C8: the identifier is a function of the link, it is the link without its scheme
\* prefix and with every '/' replaced by '_', and two links that differ only by
\* scheme get the same identifier, so that the later record replaces the earlier one
\* in the remote collection.
C8_Identifier ==
    /\ \A i \in 1..Len(fin) : fin[i].id = Underscored(BodyOf(fin[i].link))
    /\ \A i, j \in 1..Len(fin) :
          /\ fin[i].link = fin[j].link => fin[i].id = fin[j].id
          /\ BodyOf(fin[i].link) = BodyOf(fin[j].link) => fin[i].id = fin[j].id
    /\ \A i \in 1..Len(fin) :
          LET last == CHOOSE k \in i..Len(fin) :
                          /\ BodyOf(fin[k].link) = BodyOf(fin[i].link)
                          /\ \A m \in (k + 1)..Len(fin) :
                                BodyOf(fin[m].link) # BodyOf(fin[i].link)
          IN {e \in fout : e.id = fin[i].id}
                 = {[id |-> fin[i].id, doc |-> [link |-> fin[last].link, call |-> last]]}

C8_Witness ==
    /\ Len(fin) = 2
    /\ fin[1].link = Https \o <<"w", "/">>
    /\ fin[2].link = Http \o <<"w", "/">>
    /\ fout = {[id |-> <<"w", "_">>, doc |-> [link |-> Http \o <<"w", "/">>, call |-> 2]]}

(***************************************************************************)
(* scrape_keyword, one page: metadata collection, extraction, the markup   *)
(* fallback cascade, the record and the decision to persist it             *)
(***************************************************************************)
\* `pat in text`
Contains(text, pat) ==
    \E i \in 0..(Len(text) - Len(pat)) : SubSeq(text, i + 1, i + Len(pat)) = pat

\* whether a decoded document holds the text "Recipe" in one of its values
RECURSIVE MentionsRecipe(_)
MentionsRecipe(v) ==
    CASE v.t = "str" -> Contains(v.s, RecipeText)
      [] v.t = "list" -> \E i \in 1..Len(v.l) : MentionsRecipe(v.l[i])
      [] v.t = "dict" -> \E i \in 1..Len(v.l) : MentionsRecipe(v.l[i][2])
      [] OTHER -> FALSE

\* a script element: reading its text may fail; its text holds "Recipe" or not (for
\* an undecodable text this is the element's own attribute)
Script(reads, mentions, blob) == [reads |-> reads, mentions |-> mentions, blob |-> blob]
ScriptOf(blob) == Script(TRUE, TRUE, blob)

\* lines 219-225: the texts kept for the extractor
ld_texts_of(scripts) ==
    LET kept == SelectSeq(scripts,
                    LAMBDA sc : /\ sc.reads
                                /\ IF sc.blob.decodes THEN MentionsRecipe(sc.blob.data)
                                   ELSE sc.mentions)
    IN [k \in 1..Len(kept) |-> kept[k].blob]

\* the outcome of one markup query: an exception, or the value read
QueryError == [err |-> TRUE, val |-> JNone]
QueryValue(v) == [err |-> FALSE, val |-> v]

Placeholder == <<"(", "n", "o", " ", "t", "i", "t", "l", "e", ")">>
HttpPrefix == <<"h", "t", "t", "p">>

\* [(c.inner_text() or "").strip() for c in candidates if (c.inner_text() or "").strip()]
MarkupTexts(items) ==
    SelectSeq([k \in 1..Len(items) |->
                   JStr(Strip(IF Truthy(items[k]) THEN items[k].s ELSE <<>>))],
              LAMBDA x : x.s # <<>>)

\* lines 230-234
TitleFallback(title, h1) ==
    IF Truthy(title) THEN title
    ELSE IF h1.err THEN JStr(Placeholder)
    ELSE JStr(Strip(h1.val.s))

\* lines 235-241
ImageFallback(image_url, og) ==
    IF Truthy(image_url) THEN image_url
    ELSE IF ~og.err /\ Truthy(og.val) /\ StartsWith(og.val.s, HttpPrefix) THEN og.val
    ELSE image_url

\* lines 242-249 and 250-257
ListFallback(current, q) ==
    IF Truthy(current) THEN current
    ELSE IF ~q.err /\ MarkupTexts(q.val.l) # <<>> THEN JList(MarkupTexts(q.val.l))
    ELSE current

\* the cascade with the markup value taken whenever the query gives one
FallbackOverwriting(ld, markup) ==
    [title |-> TitleFallback(JNone, markup.h1),
     image_url |-> ImageFallback(JNone, markup.og),
     steps |-> ListFallback(JList(<<>>), markup.steps),
     ingredients |-> ListFallback(JList(<<>>), markup.ingredients),
     time_text |-> ld.time_text,
     yield_info |-> ld.yield_info]

\* lines 229-257: the four fallbacks, in the code's order
Fallback(ld, markup) ==
    [title |-> TitleFallback(ld.title, markup.h1),
     image_url |-> ImageFallback(ld.image_url, markup.og),
     steps |-> ListFallback(ld.steps, markup.steps),
     ingredients |-> ListFallback(ld.ingredients, markup.ingredients),
     time_text |-> ld.time_text,
     yield_info |-> ld.yield_info]

\* lines 259-268
BuildDoc(url, f) ==
    [title |-> IF Truthy(f.title) THEN f.title ELSE JStr(<<>>),
     ingredients |-> f.ingredients,
     steps |-> f.steps,
     time |-> f.time_text,
     yield |-> f.yield_info,
     link |-> url,
     imageUrl |-> f.image_url,
     source |-> "icook"]

\* lines 227-268 for a page that loaded
DocOf(url, page) == BuildDoc(url, Fallback(parse_ld_json(ld_texts_of(page.scripts)), page.markup))

\* line 270 with the test on the ingredients left out
KeepAlways(doc) == TRUE

\* line 270: whether the record is persisted
Keep(doc) == Truthy(doc.ingredients)

(***************************************************************************)
(* Specification SpecPage: one page that loaded, with up to MaxScripts     *)
(* metadata scripts and every outcome of the four markup queries           *)
(***************************************************************************)
MaxScripts == 2

RecipesUrl ==
    Https \o <<"i", "c", "o", "o", "k", ".", "t", "w", "/",
               "r", "e", "c", "i", "p", "e", "s", "/">>
\* urljoin("https://icook.tw", "/recipes/<id>")
Url(id) == RecipesUrl \o IntToStr(id)

PageScripts ==
    {ScriptOf(Blob(n)) : n \in LdNodes}
    \cup {ScriptOf(Undecodable), Script(FALSE, TRUE, Blob(NodeA))}
H1Outcomes == {QueryError, QueryValue(Padded("H")), QueryValue(Blank)}
OgOutcomes ==
    {QueryError, QueryValue(JNone), QueryValue(JStr(HttpPrefix \o <<":", "o">>)),
     QueryValue(T("o"))}
StepsOutcomes ==
    {QueryError, QueryValue(JList(<<>>)),
     QueryValue(JList(<<Blank, Padded("m"), JNone>>))}
IngredientsOutcomes ==
    {QueryError, QueryValue(JList(<<>>)), QueryValue(JList(<<Blank>>)),
     QueryValue(JList(<<Padded("i"), T("j")>>))}
Markups ==
    [h1 : H1Outcomes, og : OgOutcomes, steps : StepsOutcomes,
     ingredients : IngredientsOutcomes]

\* fin: the page; fout: what the extractor returned, the record, whether it is kept
PageInit ==
    /\ NoRun
    /\ fin \in [scripts : SeqsUpTo(PageScripts, MaxScripts), markup : Markups]
    /\ fout = [ld |-> EmptyFields, doc |-> BuildDoc(<<>>, EmptyFields), keep |-> FALSE]
    /\ fpc = "ready"

PageVisit ==
    /\ fpc = "ready"
    /\ fout' = [ld |-> parse_ld_json(ld_texts_of(fin.scripts)),
                doc |-> DocOf(Url(1), fin),
                keep |-> Keep(DocOf(Url(1), fin))]
    /\ fpc' = "done"
    /\ UNCHANGED <<fin, rvars>>

PageNext == PageVisit
SpecPage == PageInit /\ [][PageNext]_vars

\* what a list query contributes when it does not fail: its non-empty trimmed texts
QueryTexts(q) == IF q.err THEN <<>> ELSE MarkupTexts(q.val.l)

\* C10: a field the extractor set keeps its value; a field it left unset is decided by
\* its own markup query alone, whatever the other three queries do, and a failing query
\* leaves its field without a value (the placeholder for the title); the record is
\* assembled in every case.
C10_FallbackCascade == fpc = "done" =>
    LET ld == fout.ld
        doc == fout.doc
        m == fin.markup
    IN /\ Truthy(ld.title) => doc.title = ld.title
       /\ Truthy(ld.image_url) => doc.imageUrl = ld.image_url
       /\ Truthy(ld.steps) => doc.steps = ld.steps
       /\ Truthy(ld.ingredients) => doc.ingredients = ld.ingredients
       /\ ~Truthy(ld.title) =>
             doc.title = (IF m.h1.err THEN JStr(Placeholder) ELSE JStr(Strip(m.h1.val.s)))
       /\ ~Truthy(ld.image_url) =>
             IF ~m.og.err /\ IsStr(m.og.val) /\ StartsWith(m.og.val.s, HttpPrefix)
             THEN doc.imageUrl = m.og.val
             ELSE ~Truthy(doc.imageUrl)
       /\ ~Truthy(ld.steps) => doc.steps = JList(QueryTexts(m.steps))
       /\ ~Truthy(ld.ingredients) => doc.ingredients = JList(QueryTexts(m.ingredients))
       /\ doc.link = Url(1) /\ doc.time = ld.time_text /\ doc.yield = ld.yield_info

\* the title query fails and gives the placeholder, the steps of the metadata stay
\* although the markup has steps, the ingredients come from the markup
C10_Witness ==
    /\ fpc = "done"
    /\ fin.markup.h1.err /\ fin.markup.og.err
    /\ fout.doc.title = JStr(Placeholder)
    /\ Truthy(fout.ld.steps) /\ QueryTexts(fin.markup.steps) # <<>>
    /\ fout.doc.steps = fout.ld.steps
    /\ ~Truthy(fout.ld.ingredients)
    /\ fout.doc.ingredients = JList(<<T("i"), T("j")>>)
    /\ fout.keep

(***************************************************************************)
(* main and scrape_keyword: the runs of the process                        *)
(***************************************************************************)
NumKeywords == 2        \* the keywords of COMMON_INGREDIENTS in the model
LIMIT_PER_ING == 2      \* the cap on the links of one keyword in the model
MaxRecipes == 3         \* the recipes of the site
MaxAnchors == 3         \* the anchors of one search page
MaxRuns == 2            \* the runs of the process
MaxVisits == 2          \* the links found by all searches of all runs together

COMMON_INGREDIENTS == 1..NumKeywords
RecipeIds == 1..MaxRecipes

\* random.shuffle(kws): any order of the keywords
Shuffles(S) == {q \in [1..Cardinality(S) -> S] : \A i, j \in DOMAIN q : q[i] = q[j] => i = j}

\* the page a link shows at one visit: full metadata and no usable markup; metadata
\* that does not decode and usable markup; neither
PageWithMetadata ==
    [scripts |-> <<ScriptOf(Blob(NodeA))>>,
     markup |-> [h1 |-> QueryError, og |-> QueryError, steps |-> QueryError,
                 ingredients |-> QueryError]]
PageWithMarkup ==
    [scripts |-> <<ScriptOf(Undecodable)>>,
     markup |-> [h1 |-> QueryValue(Padded("H")), og |-> QueryValue(JNone),
                 steps |-> QueryError,
                 ingredients |-> QueryValue(JList(<<Padded("i"), T("j")>>))]]
PageWithNothing ==
    [scripts |-> <<>>,
     markup |-> [h1 |-> QueryError, og |-> QueryError, steps |-> QueryValue(JList(<<>>)),
                 ingredients |-> QueryError]]
RunPages == {PageWithMetadata, PageWithMarkup, PageWithNothing}

\* a local JSON file: absent, holding a JSON array, or holding text that does not parse
Absent == [state |-> "absent", recs |-> <<>>]
Broken == [state |-> "broken", recs |-> <<>>]
Json(recs) == [state |-> "json", recs |-> recs]

\* lines 199-205: the links of the anchors whose href is /recipes/<digits> (an
\* anchor 0 stands for any other href), without repetition, first seen first, capped
RECURSIVE Dedup(_)
Dedup(seq) ==
    IF seq = <<>> THEN <<>>
    ELSE LET init == Dedup(SubSeq(seq, 1, Len(seq) - 1))
             x == seq[Len(seq)]
         IN IF \E i \in 1..Len(init) : init[i] = x THEN init ELSE Append(init, x)

LinksOf(anchors) ==
    LET hrefs == SelectSeq(anchors, LAMBDA a : a \in RecipeIds)
        found == Dedup([k \in 1..Len(hrefs) |-> Url(hrefs[k])])
    IN SubSeq(found, 1, IF Len(found) < LIMIT_PER_ING THEN Len(found) ELSE LIMIT_PER_ING)

\* lines 215-217 with `break` in the place of `continue`
RemainingAfterFailureBreak(ls) == <<>>

\* lines 215-217: `continue` goes on with the next link
RemainingAfterFailure(ls) == Tail(ls)

\* lines 272-277 with the failure of the upsert not caught around the append
SavedAfterUpsertStrict(sv, doc, ok) == IF ok THEN Append(sv, doc) ELSE sv

\* lines 272-277: the record is appended whether or not the upsert succeeded
SavedAfterUpsert(sv, doc, ok) == Append(sv, doc)

\* lines 319-321 writing the previous content followed by the run's records
SnapshotMerged(old, recs) ==
    [state |-> "json", recs |-> (IF old.state = "json" THEN old.recs ELSE <<>>) \o recs]

\* lines 319-321: json.dump(all_saved) over the file opened with "w"
SnapshotWritten(old, recs) == Json(recs)

\* lines 326-336 without the read of the existing file
HistoryOverwritten(old, recs) == Json(recs)

\* lines 326-336: the parsed file (empty when absent or unparseable) extended by the
\* run's records and written back
HistoryWritten(old, recs) ==
    [state |-> "json", recs |-> (IF old.state = "json" THEN old.recs ELSE <<>>) \o recs]

\* a record an earlier run left in the history file
PriorRecord == DocOf(Url(1), PageWithMarkup)

NoIo == [snap |-> "none", hist |-> "none", summary |-> "none"]

Init ==
    /\ fin = <<>> /\ fout = <<>> /\ fpc = "none"
    /\ pc = "idle" /\ run = 0 /\ db = FALSE
    /\ kws = <<>> /\ links = <<>> /\ kw_links = <<>> /\ visited = <<>>
    /\ saved = <<>> /\ all_saved = <<>> /\ upserts = <<>>
    /\ snapshot = Absent
    /\ history \in {Absent, Json(<<PriorRecord>>)}
    /\ io = NoIo
    /\ budget = MaxVisits
    /\ trail = <<>>

\* the records a file gives when read: those of its array, none when it is absent
\* or does not parse
Recs(file) == IF file.state = "json" THEN file.recs ELSE <<>>

\* the last entry of the trail, which is this run's, closed with how the run ended
Closed(outcome) ==
    [trail EXCEPT ![Len(trail)] =
        [@ EXCEPT !.recs = all_saved, !.outcome = outcome, !.snap = io.snap,
                  !.hist = io.hist]]

\* the process is started: lines 42-70 configure the remote handle or leave it unset
StartRun ==
    /\ pc \in {"idle", "done", "aborted"}
    /\ run < MaxRuns
    /\ run' = run + 1
    /\ \E handle \in BOOLEAN : db' = handle
    /\ pc' = "setup"
    /\ kws' = <<>> /\ links' = <<>> /\ kw_links' = <<>> /\ visited' = <<>>
    /\ saved' = <<>> /\ all_saved' = <<>> /\ upserts' = <<>>
    /\ io' = NoIo
    /\ trail' = Append(trail, [before |-> Recs(history), recs |-> <<>>,
                               outcome |-> "running", snap |-> "none",
                               hist |-> "none"])
    /\ UNCHANGED <<snapshot, history, budget, fvars>>

\* lines 294-306: the browser session is set up and the keywords shuffled, or the
\* set-up raises
Setup ==
    /\ pc = "setup"
    /\ \/ /\ \E order \in Shuffles(COMMON_INGREDIENTS) : kws' = order
          /\ pc' = "keywords"
          /\ UNCHANGED trail
       \/ /\ pc' = "aborted"
          /\ trail' = Closed("setup")
          /\ UNCHANGED kws
    /\ UNCHANGED <<run, db, links, kw_links, visited, saved, all_saved, upserts,
                   snapshot, history, io, budget, fvars>>

\* lines 194-208: the search page of the next keyword; the navigation is not guarded,
\* so its failure leaves scrape_keyword and main
Search ==
    /\ pc = "keywords" /\ kws # <<>>
    /\ \/ /\ \E anchors \in SeqsUpTo(RecipeIds \cup {0}, MaxAnchors) :
                /\ Len(LinksOf(anchors)) <= budget
                /\ links' = LinksOf(anchors)
                /\ kw_links' = LinksOf(anchors)
                /\ budget' = budget - Len(LinksOf(anchors))
          /\ kws' = Tail(kws)
          /\ visited' = <<>> /\ saved' = <<>>
          /\ pc' = "links"
          /\ UNCHANGED trail
       \/ /\ pc' = "aborted"
          /\ trail' = Closed("search")
          /\ UNCHANGED <<kws, links, kw_links, visited, saved, budget>>
    /\ UNCHANGED <<run, db, all_saved, upserts, snapshot, history, io, fvars>>

\* lines 209-282: one iteration of the loop over the links
VisitLink ==
    /\ pc = "links" /\ links # <<>>
    /\ LET url == Head(links)
       IN \/ \* lines 211-217: the navigation fails
             /\ links' = RemainingAfterFailure(links)
             /\ visited' = Append(visited, [link |-> url, loaded |-> FALSE,
                                            doc |-> BuildDoc(url, EmptyFields)])
             /\ UNCHANGED <<saved, upserts>>
          \/ \E page \in RunPages, ok \in BOOLEAN :
                LET doc == DocOf(url, page)
                IN /\ links' = Tail(links)
                   /\ visited' = Append(visited, [link |-> url, loaded |-> TRUE, doc |-> doc])
                   /\ IF Keep(doc)
                      THEN IF db
                           THEN /\ upserts' = Append(upserts, [doc |-> doc,
                                                                id |-> DocId(doc.link),
                                                                ok |-> ok])
                                /\ saved' = SavedAfterUpsert(saved, doc, ok)
                           ELSE /\ ok
                                /\ saved' = Append(saved, doc)
                                /\ UNCHANGED upserts
                      ELSE /\ ok
                           /\ UNCHANGED <<saved, upserts>>
    /\ UNCHANGED <<pc, run, db, kws, kw_links, all_saved, snapshot, history, io, budget,
                   trail, fvars>>

\* lines 283 and 308-309: scrape_keyword returns and main extends all_saved
EndKeyword ==
    /\ pc = "links" /\ links = <<>>
    /\ all_saved' = all_saved \o saved
    /\ saved' = <<>> /\ visited' = <<>> /\ kw_links' = <<>>
    /\ pc' = "keywords"
    /\ UNCHANGED <<run, db, kws, links, upserts, snapshot, history, io, budget,
                   trail, fvars>>

\* lines 315-316 and the end of the `with` block: the session is closed, or closing
\* raises
Teardown ==
    /\ pc = "keywords" /\ kws = <<>>
    /\ \/ /\ pc' = "snapshot"
          /\ UNCHANGED trail
       \/ /\ pc' = "aborted"
          /\ trail' = Closed("teardown")
    /\ UNCHANGED <<run, db, kws, links, kw_links, visited, saved, all_saved, upserts,
                   snapshot, history, io, budget, fvars>>

\* lines 318-323: the snapshot is written; a failing write is logged and leaves the
\* file as it was (it could not be opened) or cut short (it was opened and truncated)
WriteSnapshot ==
    /\ pc = "snapshot"
    /\ \/ /\ snapshot' = SnapshotWritten(snapshot, all_saved)
          /\ io' = [io EXCEPT !.snap = "ok"]
       \/ /\ snapshot' \in {snapshot, Broken}
          /\ io' = [io EXCEPT !.snap = "failed"]
    /\ pc' = "history"
    /\ UNCHANGED <<run, db, kws, links, kw_links, visited, saved, all_saved, upserts,
                   history, budget, trail, fvars>>

\* lines 325-338: the history is read, extended and written back
WriteHistory ==
    /\ pc = "history"
    /\ \/ /\ history' = HistoryWritten(history, all_saved)
          /\ io' = [io EXCEPT !.hist = "ok"]
       \/ /\ history' \in {history, Broken}
          /\ io' = [io EXCEPT !.hist = "failed"]
    /\ pc' = "summary"
    /\ UNCHANGED <<run, db, kws, links, kw_links, visited, saved, all_saved, upserts,
                   snapshot, budget, trail, fvars>>

\* lines 342-360: with a remote handle, the collection is counted and the run's summary
\* added to crawler_logs (a failure of either is logged); the run ends
Summary ==
    /\ pc = "summary"
    /\ \/ /\ db
          /\ io' = [io EXCEPT !.summary = "called"]
       \/ /\ ~db
          /\ io' = [io EXCEPT !.summary = "skipped"]
    /\ pc' = "done"
    /\ trail' = Closed("done")
    /\ UNCHANGED <<run, db, kws, links, kw_links, visited, saved, all_saved, upserts,
                   snapshot, history, budget, fvars>>

Next ==
    \/ StartRun \/ Setup \/ Search \/ VisitLink \/ EndKeyword \/ Teardown
    \/ WriteSnapshot \/ WriteHistory \/ Summary

Spec == Init /\ [][Next]_vars

\* the entry of the trail for the run in progress or last ended
ThisRun == trail[Len(trail)]

\* the records of the upsert calls of this run, in call order
UpsertDocs == [k \in 1..Len(upserts) |-> upserts[k].doc]

\* the range of a sequence
Range(seq) == {seq[k] : k \in 1..Len(seq)}

\* C1: every record in the saved list of a keyword, in the records of the run, in an
\* upsert call, in the snapshot and in the history has a non-empty ingredients list,
\* and a visited page whose record has no ingredients adds nothing to the saved list
\* and makes no upsert call
C1_KeptOnlyWithIngredients ==
    /\ \A d \in Range(saved) \cup Range(all_saved) \cup Range(UpsertDocs)
                \cup Range(Recs(snapshot)) \cup Range(Recs(history)) :
          Truthy(d.ingredients)
    /\ pc = "links" =>
          LET kept == SelectSeq(visited, LAMBDA v : v.loaded /\ Truthy(v.doc.ingredients))
          IN /\ Len(saved) = Len(kept)
             /\ db => Len(upserts) = Len(all_saved) + Len(kept)

\* a page without ingredients was visited after a page with ingredients, and only the
\* record of the first one is in the saved list and in the upsert calls
C1_Witness ==
    /\ pc = "links" /\ db /\ Len(visited) = 2
    /\ visited[1].loaded /\ Truthy(visited[1].doc.ingredients)
    /\ visited[2].loaded /\ ~Truthy(visited[2].doc.ingredients)
    /\ saved = <<visited[1].doc>>
    /\ UpsertDocs = all_saved \o saved

\* C2 as stated: after any run that completes, the snapshot is exactly the records of
\* that run
C2_SnapshotIsThisRun ==
    pc = "done" => snapshot = Json(all_saved)

\* C2: after a run that completes and whose snapshot write succeeded the snapshot is
\* exactly that run's records, in order, whatever it held before; after a failed write
\* it is what it was before the run or a file cut short
C2_SnapshotIsThisRunWhenWritten ==
    /\ pc \in {"history", "summary", "done"} /\ io.snap = "ok" =>
          snapshot = Json(all_saved)
    /\ pc \in {"history", "summary", "done"} /\ io.snap = "failed" =>
          \/ snapshot = Broken
          \/ snapshot = Absent
          \/ \E k \in 1..Len(trail) - 1 : snapshot = Json(trail[k].recs)

\* the second run completed with records other than those the first run had written
\* to the snapshot, and the snapshot holds the second run's only
C2_Witness ==
    /\ pc = "done" /\ Len(trail) = 2 /\ io.snap = "ok"
    /\ trail[1].outcome = "done" /\ trail[1].snap = "ok" /\ trail[1].recs # <<>>
    /\ all_saved # <<>> /\ Range(all_saved) \cap Range(trail[1].recs) = {}
    /\ snapshot = Json(all_saved)

\* the entry of the trail for the run before this one
Earlier == trail[Len(trail) - 1]

\* C3 as stated: after two runs that completed the history is what it was before the
\* first one, followed by the records of the first and then of the second
C3_TwoRunsAppend ==
    Len(trail) >= 2 /\ pc = "done" /\ Earlier.outcome = "done" =>
       Recs(history) = Earlier.before \o Earlier.recs \o all_saved

\* C3: after two consecutive runs that both completed and whose history writes both
\* succeeded, the history is what the first run read (nothing when the file was absent
\* or did not parse), followed by the records of the first run and then those of the
\* second, repeated links included
C3_TwoWrittenRunsAppend ==
    /\ Len(trail) >= 2 /\ pc = "done"
       /\ Earlier.outcome = "done" /\ Earlier.hist = "ok"
       /\ ThisRun.outcome = "done" /\ ThisRun.hist = "ok" =>
          /\ history = Json(Earlier.before \o Earlier.recs \o ThisRun.recs)
          /\ ThisRun.recs = all_saved
    /\ pc \in {"summary", "done"} /\ io.hist = "ok" =>
          history = Json(ThisRun.before \o all_saved)

\* two runs completed on a history that held a record; both saved a record of the
\* same link, and the history holds the old record and then both
C3_Witness ==
    /\ pc = "done" /\ Len(trail) = 2
    /\ trail[1].outcome = "done" /\ trail[1].hist = "ok" /\ io.hist = "ok"
    /\ trail[1].before = <<PriorRecord>>
    /\ Len(trail[1].recs) = 1 /\ Len(all_saved) = 1
    /\ trail[1].recs[1].link = all_saved[1].link
    /\ Len(Recs(history)) = 3
    /\ Recs(history) = <<PriorRecord>> \o trail[1].recs \o all_saved

\* the records of the visits that loaded a page with ingredients, in visit order
RECURSIVE KeptDocs(_)
KeptDocs(vs) ==
    IF vs = <<>> THEN <<>>
    ELSE LET v == Head(vs)
         IN (IF v.loaded /\ Truthy(v.doc.ingredients) THEN <<v.doc>> ELSE <<>>)
            \o KeptDocs(Tail(vs))

\* C5: while the links of a keyword are processed, the links visited so far and the
\* links still to visit are the keyword's list in order, so a failed navigation drops
\* no later link; the saved list is the records of the links that loaded and had
\* ingredients, in link order, and with a remote handle so are the upsert calls made
\* for this keyword, so that a link whose navigation failed has no record anywhere
C5_FailedLinkSkippedAlone ==
    pc = "links" =>
       /\ [k \in 1..Len(visited) |-> visited[k].link] \o links = kw_links
       /\ \A k \in 1..Len(visited) : visited[k].loaded => visited[k].doc.link = kw_links[k]
       /\ saved = KeptDocs(visited)
       /\ db => UpsertDocs = all_saved \o KeptDocs(visited)
       /\ ~db => upserts = <<>>

\* the first link of a keyword failed to load, the second was visited and its record
\* is the only one saved and upserted for the keyword
C5_Witness ==
    /\ pc = "links" /\ links = <<>> /\ db /\ all_saved = <<>>
    /\ Len(kw_links) = 2 /\ Len(visited) = 2
    /\ ~visited[1].loaded /\ visited[2].loaded
    /\ saved = <<visited[2].doc>>
    /\ UpsertDocs = <<visited[2].doc>>
    /\ visited[2].doc.link = kw_links[2]

\* C6: with a remote handle every record kept by the run has an upsert call, in
\* order, whether or not earlier calls failed, and every record of a call, failed or
\* not, is in the run's records; a completed run whose snapshot and history writes
\* succeeded has them in both files; without a handle no upsert call and no summary
\* call is made and the records are kept all the same
C6_UpsertFailureBlocksNothing ==
    /\ db /\ pc # "links" => UpsertDocs = all_saved
    /\ db /\ pc = "links" => UpsertDocs = all_saved \o saved
    /\ db /\ pc = "done" /\ io.snap = "ok" => Recs(snapshot) = UpsertDocs
    /\ db /\ pc = "done" /\ io.hist = "ok" => Recs(history) = ThisRun.before \o UpsertDocs
    /\ ~db => upserts = <<>> /\ io.summary # "called"
    /\ pc = "done" => io.summary = (IF db THEN "called" ELSE "skipped")

\* a run completed in which the first upsert failed and a later one succeeded; both
\* records are in the snapshot and at the end of the history
C6_Witness ==
    /\ pc = "done" /\ db /\ Len(upserts) = 2
    /\ ~upserts[1].ok /\ upserts[2].ok
    /\ snapshot = Json(UpsertDocs)
    /\ Recs(history) = ThisRun.before \o UpsertDocs

\* C4 as stated: a run is aborted only by a failure of the set-up or of the teardown
C4_OnlySetupOrTeardownAborts ==
    pc = "aborted" => ThisRun.outcome \in {"setup", "teardown"}

\* the failure of the search navigation of the second keyword ended the run: the
\* records of the first keyword are in neither file
C4_SearchFailureAborts ==
    /\ pc = "aborted" /\ ThisRun.outcome = "search"
    /\ Len(kws) = 1 /\ all_saved # <<>>
    /\ io.snap = "none" /\ io.hist = "none"

(***************************************************************************)
(* Specification SpecDuration: a Recipe node whose totalTime is any text   *)
(* over DurAlphabet of at most MaxDurLen characters                        *)
(***************************************************************************)
MaxDurLen == 6
DurAlphabet == {"P", "T", "H", "M", "0", "1"}

DurInit ==
    /\ NoRun
    /\ fin \in {[text |-> s] : s \in TextsUpTo(DurAlphabet, MaxDurLen)}
    /\ fout = [conv |-> JNone, field |-> JNone]
    /\ fpc = "ready"

\* the conversion alone, then the extraction of the node's time field
DurConvert ==
    /\ fpc = "ready"
    /\ fout' = [conv |-> iso8601_duration_to_text(fin.text),
                field |-> NodeTime(JDict(<< <<"totalTime", JStr(fin.text)>> >>))]
    /\ fpc' = "done"
    /\ UNCHANGED <<fin, rvars>>

DurNext == DurConvert
SpecDuration == DurInit /\ [][DurNext]_vars

\* the text PT<H>H<M>M built from its components (an empty component is absent)
DurPattern(hd, md) ==
    <<"P", "T">> \o (IF hd = <<>> THEN <<>> ELSE hd \o <<"H">>)
                 \o (IF md = <<>> THEN <<>> ELSE md \o <<"M">>)

\* text[a..b], cut to the text's length
Slice(text, a, b) ==
    LET hi == IF b < Len(text) THEN b ELSE Len(text)
    IN IF a > hi THEN <<>> ELSE SubSeq(text, a, hi)

AllDigits(ds) == \A k \in 1..Len(ds) : IsDigit(ds[k])

\* the ways to read a text as PT<H>H<M>M: its <<hours digits, minutes digits>>
DurSplits(text) ==
    {p \in {<<Slice(text, 3, 2 + i),
              Slice(text, 3 + (IF i > 0 THEN i + 1 ELSE 0),
                           2 + (IF i > 0 THEN i + 1 ELSE 0) + j)>> :
                i \in 0..Len(text), j \in 0..Len(text)} :
        AllDigits(p[1]) /\ AllDigits(p[2]) /\ text = DurPattern(p[1], p[2])}

\* what C7 states of a pattern with hours h and minutes m (0: zero or absent)
DurExpected(h, m) ==
    IF h # 0 /\ m # 0
    THEN JStr(IntToStr(h) \o HoursUnit \o <<" ">> \o IntToStr(m) \o MinutesUnit)
    ELSE IF h # 0 THEN JStr(IntToStr(h) \o HoursUnit)
    ELSE IF m # 0 THEN JStr(IntToStr(m) \o MinutesUnit)
    ELSE JNone

\* the parts of C7 the code agrees with: the converted texts, and the pass-through
\* of a text that does not start with PT
C7_Conversions ==
    fpc = "done" =>
        /\ \A p \in DurSplits(fin.text) :
                  /\ fout.conv = DurExpected(ParseInt(p[1]), ParseInt(p[2]))
                  /\ Truthy(fout.conv) => fout.field = fout.conv
        /\ (fin.text # <<>> /\ ~StartsWith(fin.text, <<"P", "T">>)) =>
              /\ fout.conv = JStr(fin.text)
              /\ fout.field = JStr(fin.text)

\* C7 as stated: a PT<H>H<M>M text converts to the hours/minutes text, a pattern whose
\* components are both zero or absent converts to no value and leaves the time field
\* unset, and any other non-empty text is passed through unchanged.
C7_Original ==
    /\ C7_Conversions
    /\ fpc = "done" =>
          \A p \in DurSplits(fin.text) :
              (ParseInt(p[1]) = 0 /\ ParseInt(p[2]) = 0)
                  => fout.field = JNone

\* C7 as amended: as C7, except that for a pattern whose components are both zero or
\* absent the conversion yields no value and the time field is then set to the raw
\* pattern text.
C7_Amended ==
    /\ C7_Conversions
    /\ fpc = "done" =>
          \A p \in DurSplits(fin.text) :
              (ParseInt(p[1]) = 0 /\ ParseInt(p[2]) = 0)
                  => /\ fout.conv = JNone
                     /\ fout.field = JStr(fin.text)

C7_Witness ==
    /\ fpc = "done"
    /\ fin.text = <<"P", "T", "0", "H", "0", "M">>
    /\ fout.conv = JNone
    /\ fout.field = JStr(<<"P", "T", "0", "H", "0", "M">>)
====
